---- MODULE Spec2Model ----
(***************************************************************************)
(* The desugaring core of DefinitelyLisp: the bottom-up `transform` and    *)
(* the `simplify` pass built on it (src/transform.rs, src/simplify.rs),    *)
(* and the span-carrying tree with its context-threading `traverse`, the   *)
(* post-order `Node::simplify` and the let elimination built on them       *)
(* (src/ast/node.rs, src/ast/let_expr.rs).                                 *)
(*                                                                         *)
(* A tree node is a record of one shape for every variant:                 *)
(*   k     the variant's name                                              *)
(*   span  0 for `None` (a generated node), n > 0 for `Some(span n)`       *)
(*   name  the identifier, literal text or operator of the variant         *)
(*   keys  the identifiers of a let expression's bindings                  *)
(*   kids  the child nodes, in the variant's declaration order             *)
(* A call that does not return is a record of the same shape with k        *)
(* "Panic" (name is the panic message) or "Diverge" (unbounded recursion). *)
(***************************************************************************)
EXTENDS Integers, Sequences, FiniteSets, TLC

VARIABLES pc, gen, prog, out, again, calls, walk

vars == <<pc, gen, prog, out, again, calls, walk>>

----------------------------------------------------------------------------
(* Bounds of the input universe. *)

\* the largest number of not/and/or operators in a generated condition
MaxOps == 3

\* the largest number of arms in a generated match expression
MaxArms == 3

----------------------------------------------------------------------------
(* The tree model. *)

Node(k, span, name, keys, kids) ==
    [k |-> k, span |-> span, name |-> name, keys |-> keys, kids |-> kids]

\* Node::generate: a node with no span
generate(k, name, kids) == Node(k, 0, name, <<>>, kids)

\* Node::replace: a new value under the span of `self`
replace(self, value, kids) ==
    Node(value.k, self.span, value.name, value.keys, kids)

\* impl Default for Node: the NoOp placeholder
NoOp == generate("NoOp", "", <<>>)

Never == generate("Never", "", <<>>)
Ident(n) == generate("Ident", n, <<>>)
Number(n) == generate("Number", n, <<>>)
Primitive(n) == generate("Primitive", n, <<>>)
Array(inner) == generate("Array", "", <<inner>>)
Tuple(items) == generate("Tuple", "", items)
ExtendsBinOp(lhs, op, rhs) == generate("ExtendsBinOp", op, <<lhs, rhs>>)
ExtendsPrefixOp(op, value) == generate("ExtendsPrefixOp", op, <<value>>)
ExtendsExpr(lhs, rhs, then, else_) ==
    generate("ExtendsExpr", "", <<lhs, rhs, then, else_>>)
\* IfExpr(cond, then, Option<else>): two kids when the else branch is None
IfExpr(cond, then, else_) == generate("IfExpr", "", <<cond, then, else_>>)
IfThen(cond, then) == generate("IfExpr", "", <<cond, then>>)
\* MatchExpr { value, arms, else_ }: kids are value, then pattern and body of
\* each arm in order, then else_
MatchExpr(value, arms, else_) ==
    generate("MatchExpr", "", <<value>> \o arms \o <<else_>>)
\* LetExpr { bindings, body }: keys[i] is bound to kids[i]; the body is last
LetExpr(keys, values, body) ==
    Node("LetExpr", 0, "", keys, values \o <<body>>)

\* the messages of the fatal signals
TodoMsg == "not yet implemented"
ExpectedExtendsMsg == "Expected extends operator"
MultipleWildcardMsg == "Multiple wildcard patterns found in match expression"

Panic(msg) == generate("Panic", msg, <<>>)
Diverge == generate("Diverge", "", <<>>)

IsErr(n) == n.k \in {"Panic", "Diverge"}

HasErr(s) == \E i \in DOMAIN s : IsErr(s[i])

\* the first call, in evaluation order, that did not return
FirstErr(s) ==
    s[CHOOSE i \in DOMAIN s : IsErr(s[i]) /\ \A j \in 1..(i - 1) : ~IsErr(s[j])]

----------------------------------------------------------------------------
(* src/simplify.rs *)

RECURSIVE simplify_conditional(_, _, _)

\* faulty variant: the branches are not swapped
conditional_not_unswapped(value, then, else_) ==
    simplify_conditional(value, then, else_)

\* PrefixOp::Not: swap the `then` and `else` branches
conditional_not(value, then, else_) == simplify_conditional(value, else_, then)

\* faulty variant: the left conjunct is lowered first and ends up innermost
conditional_and_lhs_first(lhs, rhs, then, else_) ==
    LET then1 == simplify_conditional(lhs, then, else_)
    IN  IF IsErr(then1) THEN then1 ELSE simplify_conditional(rhs, then1, else_)

\* InfixOp::And
conditional_and(lhs, rhs, then, else_) ==
    LET then1 == simplify_conditional(rhs, then, else_)
    IN  IF IsErr(then1) THEN then1 ELSE simplify_conditional(lhs, then1, else_)

\* faulty variant: the right disjunct's lowering is taken for the `then` branch
conditional_or_as_and(lhs, rhs, then, else_) ==
    LET else1 == simplify_conditional(rhs, then, else_)
    IN  IF IsErr(else1) THEN else1 ELSE simplify_conditional(lhs, else1, else_)

\* InfixOp::Or
conditional_or(lhs, rhs, then, else_) ==
    LET else1 == simplify_conditional(rhs, then, else_)
    IN  IF IsErr(else1) THEN else1 ELSE simplify_conditional(lhs, then, else1)

simplify_conditional(condition, then, else_) ==
    CASE condition.k = "ExtendsPrefixOp" ->
            IF condition.name = "not"
            THEN conditional_not(condition.kids[1], then, else_)
            ELSE Panic(TodoMsg)
      [] condition.k = "ExtendsBinOp" ->
            LET lhs == condition.kids[1]
                rhs == condition.kids[2]
            IN  CASE condition.name = "<:" -> ExtendsExpr(lhs, rhs, then, else_)
                  [] condition.name = "!<:" -> ExtendsExpr(lhs, rhs, else_, then)
                  [] condition.name = "and" -> conditional_and(lhs, rhs, then, else_)
                  [] condition.name = "or" -> conditional_or(lhs, rhs, then, else_)
                  [] OTHER -> Panic(TodoMsg)
      [] OTHER -> Panic(ExpectedExtendsMsg)

\* the arms of a match expression, as a sequence of MatchArm { pattern, body }
MatchArms(node) ==
    [i \in 1..((Len(node.kids) - 2) \div 2) |->
        [pattern |-> node.kids[2 * i], body |-> node.kids[2 * i + 1]]]

IsWildcard(arm) == arm.pattern.k = "Ident" /\ arm.pattern.name = "_"

RECURSIVE WildcardScan(_, _)

\* faulty variant: a second wildcard replaces the first instead of panicking
WildcardScan_last_wins(arms, i) ==
    IF i = 0 THEN [panic |-> FALSE, wildcard_idx |-> 0, else_body |-> Never]
    ELSE LET st == WildcardScan(arms, i - 1)
         IN  IF IsWildcard(arms[i])
             THEN [panic |-> FALSE, wildcard_idx |-> i, else_body |-> arms[i].body]
             ELSE st

\* the loop over arms.iter().enumerate(): the state after arm i
\* (wildcard_idx 0 is None), or the panic of a second wildcard
WildcardScan(arms, i) ==
    IF i = 0 THEN [panic |-> FALSE, wildcard_idx |-> 0, else_body |-> Never]
    ELSE LET st == WildcardScan(arms, i - 1)
         IN  IF st.panic THEN st
             ELSE IF IsWildcard(arms[i])
             THEN IF st.wildcard_idx # 0
                  THEN [st EXCEPT !.panic = TRUE]
                  ELSE [panic |-> FALSE, wildcard_idx |-> i,
                        else_body |-> arms[i].body]
             ELSE st

\* faulty variant: the first arm is removed, whichever arm is the wildcard
Remove_first(s, idx) == Tail(s)

\* Vec::remove(idx)
Remove(s, idx) == [i \in 1..(Len(s) - 1) |-> IF i < idx THEN s[i] ELSE s[i + 1]]

RECURSIVE FoldArms(_, _, _, _)

\* faulty variant: the fold without .rev(): the first arm ends up innermost
RECURSIVE FoldArmsForward(_, _, _, _)
FoldArmsForward(value, arms, n, acc) ==
    IF n = 0 THEN acc
    ELSE ExtendsExpr(value, arms[n].pattern, arms[n].body,
                     FoldArmsForward(value, arms, n - 1, acc))

\* arms.into_iter().rev().fold(else_body, ..): the fold over arms[1..n]
FoldArms(value, arms, n, acc) ==
    IF n = 0 THEN acc
    ELSE FoldArms(value, arms, n - 1,
                  ExtendsExpr(value, arms[n].pattern, arms[n].body, acc))

simplify_match_expr(node) ==
    IF node.k # "MatchExpr" THEN Panic("Expected MatchExpr")
    ELSE LET value == node.kids[1]
             st == WildcardScan(MatchArms(node), Len(MatchArms(node)))
         IN  IF st.panic THEN Panic(MultipleWildcardMsg)
             ELSE LET arms == IF st.wildcard_idx # 0
                              THEN Remove(MatchArms(node), st.wildcard_idx)
                              ELSE MatchArms(node)
                  IN  FoldArms(value, arms, Len(arms), st.else_body)

\* the closure handed to transform by Simplify::simplify
SimplifyRewrite(node) ==
    CASE node.k = "IfExpr" ->
            LET else_ == IF Len(node.kids) = 3 THEN node.kids[3] ELSE Never
            IN  simplify_conditional(node.kids[1], node.kids[2], else_)
      [] node.k = "MatchExpr" -> simplify_match_expr(node)
      [] OTHER -> node

----------------------------------------------------------------------------
(* src/transform.rs *)

\* the variants transform returns as they are
TransformLeafKinds ==
    {"Error", "Never", "Any", "Unknown", "Null", "Undefined", "False", "True",
     "Ident", "Number", "Primitive", "String", "TemplateString"}

\* the rewrite functions handed to transform, by name
ApplyRewrite(f, node) ==
    CASE f = "simplify" -> SimplifyRewrite(node)
      [] OTHER -> node

RECURSIVE transform(_, _)

\* faulty variant: a tuple is taken for a leaf and its items are not transformed
transform_tuple_as_leaf(self, f) ==
    IF self.k \in TransformLeafKinds \cup {"Tuple"} THEN ApplyRewrite(f, self)
    ELSE LET kids == [i \in DOMAIN self.kids |-> transform(self.kids[i], f)]
         IN  IF HasErr(kids) THEN FirstErr(kids)
             ELSE ApplyRewrite(f, [self EXCEPT !.kids = kids])

\* every other variant rebuilds itself from its transformed children, which
\* are transformed in declaration order, and hands the result to f
transform(self, f) ==
    IF self.k \in TransformLeafKinds THEN ApplyRewrite(f, self)
    ELSE LET kids == [i \in DOMAIN self.kids |-> transform(self.kids[i], f)]
         IN  IF HasErr(kids) THEN FirstErr(kids)
             ELSE ApplyRewrite(f, [self EXCEPT !.kids = kids])

\* impl Simplify for Node
simplify(self) == transform(self, "simplify")

\* the nodes transform hands to f, in the order of the calls: the children's
\* from the first to the last, then the node rebuilt from them
RECURSIVE transform_calls(_, _)
RECURSIVE transform_calls_each(_, _, _)
transform_calls(self, f) ==
    IF self.k \in TransformLeafKinds THEN <<self>>
    ELSE LET kids == [i \in DOMAIN self.kids |-> transform(self.kids[i], f)]
         IN  Append(transform_calls_each(self.kids, Len(self.kids), f),
                    [self EXCEPT !.kids = kids])

transform_calls_each(kids, n, f) ==
    IF n = 0 THEN <<>>
    ELSE transform_calls_each(kids, n - 1, f) \o transform_calls(kids[n], f)

----------------------------------------------------------------------------
(* src/ast/node.rs *)

\* type Bindings = HashMap<Identifier, Node>: keys[i] is mapped to vals[i]
Bindings(keys, vals) == [keys |-> keys, vals |-> vals]

\* Default::default() of Bindings
EmptyBindings == Bindings(<<>>, <<>>)

\* HashMap::get(..).unwrap_or(default)
GetOr(bindings, name, default) ==
    IF \E i \in DOMAIN bindings.keys : bindings.keys[i] = name
    THEN bindings.vals[CHOOSE i \in DOMAIN bindings.keys : bindings.keys[i] = name]
    ELSE default

\* what a walk returns: (Self, Context); events is what the hooks called
\* during the walk have written down, in the order of the calls
Walked(node, ctx) == [node |-> node, ctx |-> ctx, events |-> <<>>]

\* the events of the first n walks, one walk after the other
RECURSIVE EventsOf(_, _)
EventsOf(walks, n) ==
    IF n = 0 THEN <<>> ELSE EventsOf(walks, n - 1) \o walks[n].events

\* the variants traverse rebuilds from all their children, each walked with a
\* clone of the context the pre-order hook returned
TraverseMapKinds ==
    {"Access", "Application", "Array", "BinOp", "Builtin", "CondExpr",
     "ExtendsBinOp", "ExtendsExpr", "ExtendsPrefixOp", "IfExpr", "MappedType",
     "MatchExpr", "NamespaceAccess", "ObjectLiteral", "Tuple"}

\* the variants traverse rebuilds without walking anything
TraverseCloneKinds == {"ImportStatement", "TemplateString"}

\* the pre-order hook of LetExpr::simplify
SubstitutePre(node, bindings) ==
    IF node.k = "Ident"
    THEN Walked(GetOr(bindings, node.name, node), bindings)
    ELSE Walked(node, bindings)

\* a hook that writes down the node and the context it is called with, and
\* hands on the context with its own mark added
Mark(hook, node, ctx) ==
    [node |-> node,
     ctx |-> Append(ctx, <<hook, node.span>>),
     events |-> <<[hook |-> hook, span |-> node.span, ctx |-> ctx]>>]

\* the pre-order hooks handed to traverse, by name
ApplyPre(pre, node, ctx) ==
    CASE pre = "substitute" -> SubstitutePre(node, ctx)
      [] pre = "mark" -> Mark("pre", node, ctx)
      [] OTHER -> Walked(node, ctx)

RECURSIVE traverse(_, _, _, _, _)
RECURSIVE traverse_statements(_, _, _, _, _, _)
RECURSIVE Node_simplify(_)

\* Node::prewalk
prewalk(self, ctx, pre) == traverse(self, ctx, pre, "identity", {})

\* faulty variant: the bound values are not simplified before they are substituted
LetExpr_simplify_raw_values(self) ==
    LET n == Len(self.keys)
        values == [i \in 1..n |-> self.kids[i]]
    IN  prewalk(self.kids[n + 1], Bindings(self.keys, values), "substitute").node

\* LetExpr::simplify (src/ast/let_expr.rs).  The bound values are simplified
\* in the map's iteration order; the first that does not return ends the call.
LetExpr_simplify(self) ==
    LET n == Len(self.keys)
        values == [i \in 1..n |-> Node_simplify(self.kids[i])]
    IN  IF HasErr(values) THEN FirstErr(values)
        ELSE prewalk(self.kids[n + 1], Bindings(self.keys, values),
                     "substitute").node

\* if_expr.simplify() and match_expr.simplify(), called by the post-order
\* hook of Node::simplify and defined outside the files at hand: the
\* conditional normalization and the match compilation of the design,
\* which are those of src/simplify.rs
if_expr_simplify(node) ==
    LET else_ == IF Len(node.kids) = 3 THEN node.kids[3] ELSE Never
    IN  simplify_conditional(node.kids[1], node.kids[2], else_)

match_expr_simplify(node) == simplify_match_expr(node)

\* the post-order hook of Node::simplify
SimplifyPost(node, ctx) ==
    CASE node.k = "IfExpr" -> Walked(if_expr_simplify(node), ctx)
      [] node.k = "MatchExpr" -> Walked(match_expr_simplify(node), ctx)
      [] node.k = "LetExpr" -> Walked(LetExpr_simplify(node), ctx)
      [] OTHER -> Walked(node, ctx)

\* the post-order hooks handed to traverse, by name
ApplyPost(post, node, ctx) ==
    CASE post = "simplify" -> SimplifyPost(node, ctx)
      [] post = "mark" -> Mark("post", node, ctx)
      [] OTHER -> Walked(node, ctx)

\* the children of `node` (what the pre-order hook returned for `self`), each
\* walked with a clone of ctx; the rebuilt node takes the span of `self`
traverse_children(self, node, ctx, pre, post, path) ==
    LET walks == [i \in DOMAIN node.kids |->
                    traverse(node.kids[i], ctx, pre, post, path)]
        kids == [i \in DOMAIN node.kids |-> walks[i].node]
    IN  IF HasErr(kids) THEN Walked(FirstErr(kids), ctx)
        ELSE [node |-> replace(self, node, kids), ctx |-> ctx,
              events |-> EventsOf(walks, Len(walks))]

\* faulty variant: the body of a let expression is not walked
traverse_let_expr_unwalked(self, node, ctx, pre, post, path) ==
    Walked(replace(self, node, node.kids), ctx)

\* Ast::LetExpr: the body is walked, the bindings are cloned
traverse_let_expr(self, node, ctx, pre, post, path) ==
    LET n == Len(node.kids)
        body == traverse(node.kids[n], ctx, pre, post, path)
    IN  IF IsErr(body.node) THEN Walked(body.node, ctx)
        ELSE [node |-> replace(self, node, [node.kids EXCEPT ![n] = body.node]),
              ctx |-> ctx, events |-> body.events]

\* faulty variant: every statement is walked with a clone of ctx
traverse_program_unthreaded(self, node, ctx, pre, post, path) ==
    traverse_children(self, node, ctx, pre, post, path)

\* Ast::Program: each statement is walked with the context the one before
\* it returned
traverse_program(self, node, ctx, pre, post, path) ==
    LET w == traverse_statements(node.kids, Len(node.kids), ctx, pre, post, path)
    IN  IF HasErr(w.nodes) THEN Walked(FirstErr(w.nodes), w.ctx)
        ELSE [node |-> replace(self, node, w.nodes), ctx |-> w.ctx,
              events |-> w.events]

\* Ast::Statement: the context its inner node returned is handed on
traverse_statement(self, node, ctx, pre, post, path) ==
    LET w == traverse(node.kids[1], ctx, pre, post, path)
    IN  IF IsErr(w.node) THEN w
        ELSE [node |-> replace(self, node, <<w.node>>), ctx |-> w.ctx,
              events |-> w.events]

\* a type parameter with its constraint and default walked
WalkedParam(param, kids) ==
    IF HasErr(kids) THEN FirstErr(kids) ELSE [param EXCEPT !.kids = kids]

\* the events of the walks of the first n type parameters
RECURSIVE ParamEventsOf(_, _)
ParamEventsOf(walks, n) ==
    IF n = 0 THEN <<>>
    ELSE ParamEventsOf(walks, n - 1) \o EventsOf(walks[n], Len(walks[n]))

\* Ast::TypeAlias: the body is walked first, then the constraint and the
\* default of each type parameter
traverse_type_alias(self, node, ctx, pre, post, path) ==
    LET n == Len(node.kids)
        body == traverse(node.kids[n], ctx, pre, post, path)
        walks ==
            [i \in 1..(n - 1) |->
                [j \in DOMAIN node.kids[i].kids |->
                    traverse(node.kids[i].kids[j], ctx, pre, post, path)]]
        params ==
            [i \in 1..(n - 1) |->
                WalkedParam(node.kids[i],
                    [j \in DOMAIN node.kids[i].kids |-> walks[i][j].node])]
    IN  IF HasErr(<<body.node>> \o params)
        THEN Walked(FirstErr(<<body.node>> \o params), ctx)
        ELSE [node |-> replace(self, node, params \o <<body.node>>), ctx |-> ctx,
              events |-> body.events \o ParamEventsOf(walks, n - 1)]

\* Node::traverse.  `path` holds the (self, ctx) of the calls this call is
\* nested in: a call nested in a call with the same arguments never returns.
traverse(self, ctx, pre, post, path) ==
    IF <<self, ctx>> \in path THEN Walked(Diverge, ctx)
    ELSE
    LET p == ApplyPre(pre, self, ctx)
        node == p.node
        c == p.ctx
        here == path \cup {<<self, ctx>>}
        r == CASE node.k \in TraverseMapKinds ->
                    traverse_children(self, node, c, pre, post, here)
               [] node.k = "LetExpr" ->
                    traverse_let_expr(self, node, c, pre, post, here)
               [] node.k = "Program" ->
                    traverse_program(self, node, c, pre, post, here)
               [] node.k = "Statement" ->
                    traverse_statement(self, node, c, pre, post, here)
               [] node.k \in TraverseCloneKinds ->
                    Walked(replace(self, node, node.kids), c)
               [] node.k = "TypeAlias" ->
                    traverse_type_alias(self, node, c, pre, post, here)
               [] OTHER -> Walked(node, c)
    IN  IF IsErr(r.node) THEN r
        ELSE LET q == ApplyPost(post, r.node, r.ctx)
             IN  [q EXCEPT !.events = p.events \o r.events \o q.events]

\* the loop of the Program case over the first n statements
traverse_statements(statements, n, ctx, pre, post, path) ==
    IF n = 0 THEN [nodes |-> <<>>, ctx |-> ctx, events |-> <<>>]
    ELSE LET prev == traverse_statements(statements, n - 1, ctx, pre, post, path)
         IN  IF HasErr(prev.nodes) THEN prev
             ELSE LET w == traverse(statements[n], prev.ctx, pre, post, path)
                  IN  [nodes |-> Append(prev.nodes, w.node), ctx |-> w.ctx,
                       events |-> prev.events \o w.events]

\* Node::simplify
Node_simplify(self) ==
    traverse(self, EmptyBindings, "identity", "simplify", {}).node

----------------------------------------------------------------------------
(* The trees handed to simplify.  The parser is outside the files at hand;  *)
(* these are trees it can produce.                                          *)

A_lt_B == ExtendsBinOp(Ident("a"), "<:", Ident("b"))
C_nlt_D == ExtendsBinOp(Ident("c"), "!<:", Ident("d"))
A_eq_B == ExtendsBinOp(Ident("a"), "==", Ident("b"))

Not(c) == ExtendsPrefixOp("not", c)
And(l, r) == ExtendsBinOp(l, "and", r)
Or(l, r) == ExtendsBinOp(l, "or", r)

\* the extends-conditions with exactly n operators not/and/or
RECURSIVE CondsOfSize(_)
CondsOfSize(n) ==
    IF n = 0 THEN {A_lt_B, C_nlt_D}
    ELSE {Not(c) : c \in CondsOfSize(n - 1)}
         \cup UNION {
                {ExtendsBinOp(l, op, r) :
                    l \in CondsOfSize(i), op \in {"and", "or"},
                    r \in CondsOfSize(n - 1 - i)} : i \in 0..(n - 1)}

Conds == UNION {CondsOfSize(n) : n \in 0..MaxOps}

\* conditions simplify_conditional has no lowering for
FaultyConds ==
    {A_eq_B, Ident("a"), Not(A_eq_B), And(A_lt_B, A_eq_B), Or(A_eq_B, A_lt_B),
     And(Ident("a"), C_nlt_D)}

SmallConds ==
    {A_lt_B, C_nlt_D, Not(A_lt_B), And(A_lt_B, C_nlt_D), Or(C_nlt_D, A_lt_B)}

IfInputs ==
    {IfExpr(c, Ident("t"), Ident("e")) : c \in Conds \cup FaultyConds}
    \cup {IfThen(c, Ident("t")) : c \in Conds \cup FaultyConds}
    \cup {IfExpr(c1, IfExpr(c2, Ident("t"), Ident("e")), Ident("f")) :
            c1 \in SmallConds, c2 \in SmallConds}
    \cup {IfExpr(c1, Ident("t"), IfExpr(c2, Ident("t"), Ident("e"))) :
            c1 \in SmallConds, c2 \in SmallConds}
    \cup {IfExpr(ExtendsBinOp(IfExpr(c, Ident("t"), Ident("e")), "<:", Ident("b")),
                 Number("1"), Number("2")) : c \in SmallConds \cup FaultyConds}

\* the arms a generated match expression is made of: <<pattern, body>>
ArmChoices ==
    {<<Ident("_"), Number("3")>>, <<Ident("_"), Number("4")>>,
     <<Primitive("number"), Number("1")>>,
     <<Primitive("string"), IfExpr(A_lt_B, Number("2"), Number("5"))>>}

RECURSIVE ArmLists(_)
ArmLists(n) ==
    IF n = 0 THEN {<<>>}
    ELSE {l \o a : l \in ArmLists(n - 1), a \in ArmChoices}

MatchValues ==
    {Ident("A"), IfExpr(A_lt_B, Ident("t"), Ident("e")),
     IfExpr(A_eq_B, Ident("t"), Ident("e"))}

MatchInputs ==
    {MatchExpr(v, arms, Never) :
        v \in MatchValues, arms \in UNION {ArmLists(n) : n \in 0..MaxArms}}

TwoWildcards ==
    MatchExpr(Ident("A"), <<Ident("_"), Number("3"), Ident("_"), Number("4")>>, Never)

OneWildcard ==
    MatchExpr(Ident("A"), <<Ident("_"), Number("3"),
                            Primitive("string"), Number("2")>>, Never)

\* trees nested under the structural variants
Smalls ==
    {Ident("x"), IfExpr(And(A_lt_B, Not(C_nlt_D)), Ident("t"), Ident("e")),
     IfExpr(A_eq_B, Ident("t"), Ident("e")), IfThen(Ident("a"), Ident("t")),
     TwoWildcards, OneWildcard}

TypeAlias(name, params, body) == Node("TypeAlias", 0, name, <<>>, params \o <<body>>)
Statement(inner) == generate("Statement", "", <<inner>>)
Program(statements) == generate("Program", "", statements)

\* variants that no pass rewrites, with two children each
PlainKinds == {"Access", "Application", "BinOp", "ObjectLiteral"}

NestedInputs ==
    {Tuple(<<s1, s2>>) : s1 \in Smalls, s2 \in Smalls}
    \cup {generate(k, "", <<s1, s2>>) : k \in PlainKinds, s1 \in Smalls, s2 \in Smalls}
    \cup {Array(s) : s \in Smalls}
    \cup {Program(<<Statement(TypeAlias("T", <<Ident("P")>>, s1)), Statement(s2)>>) :
            s1 \in Smalls, s2 \in Smalls}
    \cup {MatchExpr(Ident("A"), <<Primitive("number"), s1, Ident("_"), s2>>, Never) :
            s1 \in Smalls, s2 \in Smalls}

\* the trees of src/simplify.rs: no spans, no let expressions
ExprInputs == IfInputs \cup MatchInputs \cup NestedInputs

----------------------------------------------------------------------------
(* The trees of src/ast/node.rs: every parsed node carries its span         *)
(* (Node::from_pair), a different one for every node.                       *)

RECURSIVE WithSpans(_, _)
RECURSIVE WithSpansEach(_, _, _)

\* the tree with the spans first, first + 1, .. given in pre-order, and the
\* first span not given
WithSpans(node, first) ==
    LET w == WithSpansEach(node.kids, Len(node.kids), first + 1)
    IN  [node |-> [node EXCEPT !.span = first, !.kids = w.nodes], next |-> w.next]

WithSpansEach(kids, n, first) ==
    IF n = 0 THEN [nodes |-> <<>>, next |-> first]
    ELSE LET prev == WithSpansEach(kids, n - 1, first)
             w == WithSpans(kids[n], prev.next)
         IN  [nodes |-> Append(prev.nodes, w.node), next |-> w.next]

Parsed(tree) == WithSpans(tree, 1).node

X == Ident("x")
Y == Ident("y")
Z == Ident("z")

\* bound values; at most one of the values of a let does not simplify, so
\* that the order in which the map is iterated does not show
LetValues ==
    {Number("1"), Number("2"), X, Y, Z, Array(X), Array(Y), Array(Number("1")),
     Tuple(<<Y, Z>>), IfExpr(A_lt_B, Z, Number("1")),
     IfExpr(A_eq_B, Z, Number("1"))}

LetBodies ==
    {X, Y, Z, Array(X), Tuple(<<X, Y>>), Tuple(<<X, Array(X), Z>>),
     IfExpr(ExtendsBinOp(X, "<:", Y), X, Z),
     MatchExpr(X, <<Primitive("number"), X, Ident("_"), Y>>, Never)}

ShadowBodies == {X, Tuple(<<X, Y>>), Array(Array(X))}

LetInputs ==
    {LetExpr(<<"x">>, <<v>>, b) : v \in LetValues, b \in LetBodies}
    \cup {LetExpr(<<"x", "y">>, <<v1, v2>>, b) :
            v1 \in LetValues, v2 \in LetValues, b \in LetBodies}
    \cup {LetExpr(<<"x">>, <<v1>>, LetExpr(<<"x">>, <<v2>>, b)) :
            v1 \in LetValues, v2 \in LetValues, b \in ShadowBodies}
    \cup {LetExpr(<<"x">>, <<v1>>, Tuple(<<X, LetExpr(<<"x">>, <<v2>>, X)>>)) :
            v1 \in LetValues, v2 \in LetValues}
    \cup {LetExpr(<<"x">>, <<LetExpr(<<"y">>, <<v>>, Array(Y))>>, Tuple(<<X, Y>>)) :
            v \in LetValues}
    \cup {Array(LetExpr(<<"x">>, <<v>>, IfThen(A_lt_B, X))) : v \in LetValues}

\* TypeParameter { name, constraint, default, rest }: keys names the optional
\* children that are present, kids holds them
TypeParameter(name, keys, kids) == Node("TypeParameter", 0, name, keys, kids)

NodeInputs ==
    {Parsed(t) : t \in LetInputs \cup Smalls}
    \cup {Parsed(generate(k, "", <<s1, s2>>)) :
            k \in PlainKinds \cup {"MappedType", "NamespaceAccess"},
            s1 \in Smalls, s2 \in Smalls}
    \cup {Parsed(Program(<<
            Statement(TypeAlias("T",
                <<TypeParameter("P", <<"constraint", "default">>, <<s1, s2>>)>>,
                body)),
            Statement(s2)>>)) :
            s1 \in Smalls, s2 \in Smalls,
            body \in {LetExpr(<<"x">>, <<Number("1")>>, X), Z}}

----------------------------------------------------------------------------
(* The program: a tree is parsed, simplified, and the result may be         *)
(* simplified again.                                                        *)

\* where a call of simplify ends
Outcome(result) ==
    CASE result.k = "Panic" -> "aborted"
      [] result.k = "Diverge" -> "diverged"
      [] OTHER -> "simplified"

Init ==
    /\ pc = "start"
    /\ gen = "none"
    /\ prog = NoOp
    /\ out = NoOp
    /\ again = NoOp
    /\ calls = <<>>
    /\ walk = Walked(NoOp, <<>>)

\* a tree of src/simplify.rs is parsed
ParseExpr ==
    /\ pc = "start"
    /\ \E t \in ExprInputs : prog' = t
    /\ gen' = "simplify.rs"
    /\ pc' = "parsed"
    /\ UNCHANGED <<out, again, calls, walk>>

\* a tree of src/ast/node.rs is parsed
ParseNode ==
    /\ pc = "start"
    /\ \E t \in NodeInputs : prog' = t
    /\ gen' = "node.rs"
    /\ pc' = "parsed"
    /\ UNCHANGED <<out, again, calls, walk>>

\* Simplify::simplify of src/simplify.rs
Simplify ==
    /\ pc = "parsed"
    /\ gen = "simplify.rs"
    /\ out' = simplify(prog)
    /\ pc' = Outcome(out')
    /\ UNCHANGED <<gen, prog, again, calls, walk>>

\* Node::simplify of src/ast/node.rs
NodeSimplify ==
    /\ pc = "parsed"
    /\ gen = "node.rs"
    /\ out' = Node_simplify(prog)
    /\ pc' = Outcome(out')
    /\ UNCHANGED <<gen, prog, again, calls, walk>>

\* the result of Simplify::simplify is simplified again
SimplifyAgain ==
    /\ pc = "simplified"
    /\ gen = "simplify.rs"
    /\ again' = simplify(out)
    /\ pc' = IF IsErr(again') THEN "failed again" ELSE "resimplified"
    /\ UNCHANGED <<gen, prog, out, calls, walk>>

\* the result of Node::simplify is simplified again
NodeSimplifyAgain ==
    /\ pc = "simplified"
    /\ gen = "node.rs"
    /\ again' = Node_simplify(out)
    /\ pc' = IF IsErr(again') THEN "failed again" ELSE "resimplified"
    /\ UNCHANGED <<gen, prog, out, calls, walk>>

\* transform of src/transform.rs with a function that returns its argument
Transform ==
    /\ pc = "parsed"
    /\ gen = "simplify.rs"
    /\ calls' = transform_calls(prog, "identity")
    /\ pc' = "transformed"
    /\ UNCHANGED <<gen, prog, out, again, walk>>

\* Node::traverse of src/ast/node.rs with two marking hooks
Traverse ==
    /\ pc = "parsed"
    /\ gen = "node.rs"
    /\ walk' = traverse(prog, <<>>, "mark", "mark", {})
    /\ pc' = "walked"
    /\ UNCHANGED <<gen, prog, out, again, calls>>

Next ==
    \/ ParseExpr
    \/ ParseNode
    \/ Simplify
    \/ NodeSimplify
    \/ SimplifyAgain
    \/ NodeSimplifyAgain
    \/ Transform
    \/ Traverse

Spec == Init /\ [][Next]_vars

----------------------------------------------------------------------------
(* What the properties are stated with. *)

\* some node of the tree, at any depth, is of one of the kinds
RECURSIVE HasKind(_, _)
HasKind(node, kinds) ==
    \/ node.k \in kinds
    \/ \E i \in DOMAIN node.kids : HasKind(node.kids[i], kinds)

SurfaceKinds == {"IfExpr", "MatchExpr", "LetExpr"}

\* the tree without its spans
RECURSIVE StripSpans(_)
StripSpans(node) ==
    [node EXCEPT !.span = 0,
                 !.kids = [i \in DOMAIN node.kids |-> StripSpans(node.kids[i])]]

\* the tree with every reference to a key replaced by a copy of the key's
\* value, and nothing else changed
RECURSIVE SubstituteRefs(_, _)
SubstituteRefs(node, bindings) ==
    IF node.k = "Ident" THEN GetOr(bindings, node.name, node)
    ELSE [node EXCEPT !.kids = [i \in DOMAIN node.kids |->
                                    SubstituteRefs(node.kids[i], bindings)]]

\* the first call of simplify has ended
Called == pc \in {"simplified", "aborted", "diverged", "resimplified", "failed again"}

\* the first call of simplify has returned a tree
Returned == pc \in {"simplified", "resimplified", "failed again"}

IsIf(node) == node.k = "IfExpr" /\ Len(node.kids) = 3

Cond == prog.kids[1]
Then == prog.kids[2]
Else == prog.kids[3]

----------------------------------------------------------------------------
\* C1: a tree that simplify returns holds no surface conditional, no match
\* expression and no let expression at any depth, also in what was inlined
\* from let bindings.
C1_NoSurfaceNodes ==
    /\ Returned => ~HasKind(out, SurfaceKinds)
    /\ pc = "resimplified" => ~HasKind(again, SurfaceKinds)

\* a let whose bound value holds a conditional was inlined into the result
C1_Witness ==
    /\ pc = "simplified"
    /\ prog.k = "LetExpr"
    /\ HasKind(prog.kids[1], {"IfExpr"})
    /\ HasKind(out, {"ExtendsExpr"})

\* C2: simplify is idempotent: simplifying a tree that simplify returned
\* returns that tree.
C2_Idempotent ==
    /\ pc # "failed again"
    /\ pc = "resimplified" => again = out

\* a tree that the first call rewrote was simplified a second time
C2_Witness ==
    /\ pc = "resimplified"
    /\ HasKind(prog, SurfaceKinds)
    /\ out # prog

\* C3: negation duality: simplify(if not C then T else E) is
\* simplify(if C then E else T).
C3_NegationDuality ==
    (/\ Called
     /\ gen = "simplify.rs"
     /\ IsIf(prog)
     /\ Cond.k = "ExtendsPrefixOp"
     /\ Cond.name = "not")
    => out = simplify(IfExpr(Cond.kids[1], Else, Then))

\* a negated conjunction or disjunction was lowered
C3_Witness ==
    /\ pc = "simplified"
    /\ gen = "simplify.rs"
    /\ IsIf(prog)
    /\ Cond.k = "ExtendsPrefixOp"
    /\ Cond.kids[1].k = "ExtendsBinOp"
    /\ Cond.kids[1].name \in {"and", "or"}
    /\ out.k = "ExtendsExpr"

\* C4: and-distribution: simplify(if (A and B) then T else E) is
\* simplify(if A then (if B then T else E) else E).
C4_AndDistribution ==
    (/\ Called
     /\ gen = "simplify.rs"
     /\ IsIf(prog)
     /\ Cond.k = "ExtendsBinOp"
     /\ Cond.name = "and")
    => out = simplify(IfExpr(Cond.kids[1],
                             IfExpr(Cond.kids[2], Then, Else), Else))

\* a conjunction of two different conjuncts was lowered
C4_Witness ==
    /\ pc = "simplified"
    /\ gen = "simplify.rs"
    /\ IsIf(prog)
    /\ Cond.k = "ExtendsBinOp"
    /\ Cond.name = "and"
    /\ Cond.kids[1] # Cond.kids[2]
    /\ Cond.kids[2].k = "ExtendsPrefixOp"
    /\ out.k = "ExtendsExpr"

\* C5: or-distribution: simplify(if (A or B) then T else E) is
\* simplify(if A then T else (if B then T else E)).
C5_OrDistribution ==
    (/\ Called
     /\ gen = "simplify.rs"
     /\ IsIf(prog)
     /\ Cond.k = "ExtendsBinOp"
     /\ Cond.name = "or")
    => out = simplify(IfExpr(Cond.kids[1], Then,
                             IfExpr(Cond.kids[2], Then, Else)))

\* a disjunction of two different disjuncts was lowered
C5_Witness ==
    /\ pc = "simplified"
    /\ gen = "simplify.rs"
    /\ IsIf(prog)
    /\ Cond.k = "ExtendsBinOp"
    /\ Cond.name = "or"
    /\ Cond.kids[1] # Cond.kids[2]
    /\ Cond.kids[1].k = "ExtendsBinOp"
    /\ Cond.kids[1].name = "and"
    /\ out.k = "ExtendsExpr"

\* the number of wildcard arms of a match expression
WildcardCount(node) ==
    Cardinality({i \in DOMAIN MatchArms(node) : IsWildcard(MatchArms(node)[i])})

\* the arms that are no wildcard, in source order
PlainArms(node) == SelectSeq(MatchArms(node), LAMBDA arm : ~IsWildcard(arm))

\* the body of the wildcard arm, or the never literal
Default(node) ==
    IF WildcardCount(node) = 0 THEN Never
    ELSE MatchArms(node)[CHOOSE i \in DOMAIN MatchArms(node) :
                            IsWildcard(MatchArms(node)[i])].body

\* if V <: p_i then b_i else if V <: p_(i+1) then .. else D
RECURSIVE IfChain(_, _, _, _)
IfChain(value, arms, i, default) ==
    IF i > Len(arms) THEN default
    ELSE IfExpr(ExtendsBinOp(value, "<:", arms[i].pattern), arms[i].body,
                IfChain(value, arms, i + 1, default))

C6_WitnessDefault ==
    /\ pc = "simplified"
    /\ gen = "simplify.rs"
    /\ prog.k = "MatchExpr"
    /\ Len(PlainArms(prog)) = 0
    /\ WildcardCount(prog) = 1
    /\ out = Number("3")

\* some match expression of the tree has two or more wildcard arms
RECURSIVE HasDuplicateWildcard(_)
HasDuplicateWildcard(node) ==
    \/ node.k = "MatchExpr" /\ WildcardCount(node) >= 2
    \/ \E i \in DOMAIN node.kids : HasDuplicateWildcard(node.kids[i])

\* the condition is one simplify_conditional lowers
RECURSIVE Lowerable(_)
Lowerable(condition) ==
    CASE condition.k = "ExtendsPrefixOp" ->
            condition.name = "not" /\ Lowerable(condition.kids[1])
      [] condition.k = "ExtendsBinOp" ->
            \/ condition.name \in {"<:", "!<:"}
            \/ /\ condition.name \in {"and", "or"}
               /\ Lowerable(condition.kids[1])
               /\ Lowerable(condition.kids[2])
      [] OTHER -> FALSE

\* some conditional of the tree has a condition with no lowering
RECURSIVE HasFaultyIf(_)
HasFaultyIf(node) ==
    \/ node.k = "IfExpr" /\ ~Lowerable(node.kids[1])
    \/ \E i \in DOMAIN node.kids : HasFaultyIf(node.kids[i])

\* C7, as claimed: a tree with a match of two or more wildcard arms ends in
\* the duplicate-wildcard signal, and no other tree does.
C7_AsClaimed ==
    (Called /\ gen = "simplify.rs")
    => (HasDuplicateWildcard(prog) <=> out = Panic(MultipleWildcardMsg))

\* C7, amended: a tree with a match of two or more wildcard arms never
\* simplifies to a tree: the call ends in a fatal signal, the
\* duplicate-wildcard signal unless the tree also holds a conditional whose
\* condition has no lowering; a tree whose matches have at most one wildcard
\* arm never ends in the duplicate-wildcard signal.
C7_WildcardUniqueness ==
    (Called /\ gen = "simplify.rs")
    => /\ HasDuplicateWildcard(prog) =>
            /\ out.k = "Panic"
            /\ out # Panic(MultipleWildcardMsg) => HasFaultyIf(prog)
       /\ ~HasDuplicateWildcard(prog) => out # Panic(MultipleWildcardMsg)

\* a match of two wildcard arms nested in another node ended the call
C7_Witness ==
    /\ pc = "aborted"
    /\ gen = "simplify.rs"
    /\ prog.k # "MatchExpr"
    /\ HasDuplicateWildcard(prog)
    /\ out = Panic(MultipleWildcardMsg)

\* the bindings of a let expression, and its body
LetBindings(node) ==
    Bindings(node.keys, [i \in 1..Len(node.keys) |-> node.kids[i]])

LetBody(node) == node.kids[Len(node.kids)]

\* the bindings with their values simplified
SimplifiedBindings(node) ==
    Bindings(node.keys, [i \in 1..Len(node.keys) |-> Node_simplify(node.kids[i])])

\* C8: what the simplification of a let expression returns is its
\* (simplified) body with every reference to a key replaced by a copy of the
\* key's simplified value, and nothing else changed.  Spans are left out of
\* the comparison.
C8_LetSubstitution ==
    (/\ Returned
     /\ gen = "node.rs"
     /\ prog.k = "LetExpr")
    => StripSpans(out) =
        StripSpans(SubstituteRefs(Node_simplify(LetBody(prog)),
                                  SimplifiedBindings(prog)))

\* the tree with its let expressions eliminated innermost first: each let
\* is its body, already free of lets, with the references to its own keys
\* replaced
RECURSIVE EliminateLets(_)
EliminateLets(node) ==
    IF node.k = "LetExpr"
    THEN SubstituteRefs(EliminateLets(LetBody(node)), SimplifiedBindings(node))
    ELSE [node EXCEPT !.kids = [i \in DOMAIN node.kids |->
                                    EliminateLets(node.kids[i])]]

\* a let on the same keys lies in the body of the let
ShadowedIn(node) ==
    \/ LetBody(node).k = "LetExpr" /\ LetBody(node).keys = node.keys
    \/ /\ LetBody(node).k = "Tuple"
       /\ \E i \in DOMAIN LetBody(node).kids :
            /\ LetBody(node).kids[i].k = "LetExpr"
            /\ LetBody(node).kids[i].keys = node.keys

\* C9: in nested lets that bind the same name, a reference in the inner
\* let's body is replaced by the inner binding's value, never by the outer
\* one: the result is the tree with the inner let eliminated first, the
\* outer binding reaching only the references that are left.
C9_LetShadowing ==
    (/\ Returned
     /\ gen = "node.rs"
     /\ prog.k = "LetExpr"
     /\ ShadowedIn(prog))
    => StripSpans(out) = StripSpans(EliminateLets(prog))

\* let x = 1 in (x, let x = 2 in x) was simplified to (1, 2)
C9_WitnessTuple ==
    /\ pc = "simplified"
    /\ gen = "node.rs"
    /\ StripSpans(prog) =
        LetExpr(<<"x">>, <<Number("1")>>,
                Tuple(<<X, LetExpr(<<"x">>, <<Number("2")>>, X)>>))
    /\ StripSpans(out) = Tuple(<<Number("1"), Number("2")>>)

\* let x = 1 in (let x = 2 in x) was simplified to 2
C9_Witness ==
    /\ pc = "simplified"
    /\ gen = "node.rs"
    /\ StripSpans(prog) =
        LetExpr(<<"x">>, <<Number("1")>>, LetExpr(<<"x">>, <<Number("2")>>, X))
    /\ StripSpans(out) = Number("2")

\* C10: every call of simplify returns a tree or ends in a fatal signal; none
\* recurses without end.
C10_Totality == pc # "diverged"

----------------------------------------------------------------------------
\* every node of the tree, the tree itself included
RECURSIVE NodesOf(_)
NodesOf(node) ==
    {node} \cup UNION {NodesOf(node.kids[i]) : i \in DOMAIN node.kids}

\* the node is the node of the parsed tree that carries its span: same
\* variant, same name
KeepsItsSpan(node, parsed) ==
    \E m \in NodesOf(parsed) :
        m.span = node.span /\ m.k = node.k /\ m.name = node.name

\* C11: after Node::simplify every canonical conditional a pass introduced
\* has no span, and every node that has a span is the node that had this span
\* in the input: a node the let substitution put in the place of a reference
\* carries the span of the bound value, not the span of the reference.
C11_SpanPreservation ==
    (Returned /\ gen = "node.rs") =>
        \A n \in NodesOf(out) :
            /\ n.k = "ExtendsExpr" => n.span = 0
            /\ n.span # 0 => KeepsItsSpan(n, prog)

----------------------------------------------------------------------------
\* the subtrees of the tree, the children's in declaration order before the
\* tree itself
RECURSIVE Declared(_)
RECURSIVE DeclaredEach(_, _)
Declared(node) == Append(DeclaredEach(node.kids, Len(node.kids)), node)

DeclaredEach(kids, n) ==
    IF n = 0 THEN <<>> ELSE DeclaredEach(kids, n - 1) \o Declared(kids[n])

\* the spans of the nodes of the tree, a node's before its children's, the
\* children in declaration order; a type parameter is not a node, its
\* constraint and its default are
RECURSIVE DeclaredSpans(_)
RECURSIVE DeclaredSpansEach(_, _)
DeclaredSpans(node) ==
    (IF node.k = "TypeParameter" THEN <<>> ELSE <<node.span>>)
        \o DeclaredSpansEach(node.kids, Len(node.kids))

DeclaredSpansEach(kids, n) ==
    IF n = 0 THEN <<>>
    ELSE DeclaredSpansEach(kids, n - 1) \o DeclaredSpans(kids[n])

\* the spans of the nodes the pre-order hook was called with, in call order
RECURSIVE PreSpans(_)
PreSpans(events) ==
    IF events = <<>> THEN <<>>
    ELSE (IF Head(events).hook = "pre" THEN <<Head(events).span>> ELSE <<>>)
            \o PreSpans(Tail(events))

\* C12: transform hands every node of the tree to f exactly once, the
\* children of a node in declaration order before the node, and traverse
\* calls the pre-order hook with every node of the tree exactly once, the
\* children of a node in declaration order after the node (for a type alias
\* the parameters' constraints and defaults before the body, for a let
\* expression the bound values and the body).
C12_TraversalOrder ==
    /\ pc = "transformed" => calls = Declared(prog)
    /\ pc = "walked" => PreSpans(walk.events) = DeclaredSpans(prog)

----------------------------------------------------------------------------
\* the names the tree refers to
IdentNames(node) == {n.name : n \in {m \in NodesOf(node) : m.k = "Ident"}}

\* C13: the bindings of a let do not see each other: for every key the
\* (simplified) body refers to, every name the key's simplified value refers
\* to is still referred to in the result: no reference inside a bound value
\* was replaced by a binding of the same let, be the value a bare identifier
\* or a composite node.
C13_BindingsIsolated ==
    (/\ Returned
     /\ gen = "node.rs"
     /\ prog.k = "LetExpr")
    => \A i \in 1..Len(prog.keys) :
        prog.keys[i] \in IdentNames(Node_simplify(LetBody(prog)))
            => IdentNames(SimplifiedBindings(prog).vals[i]) \subseteq IdentNames(out)

----------------------------------------------------------------------------
\* what the marking hooks have written down during the walk
Events == {walk.events[i] : i \in DOMAIN walk.events}

\* the hook was called with the node
HookCalled(hook, node) ==
    \E e \in Events : e.hook = hook /\ e.span = node.span

\* the context the hook was called with for the node
HookCtx(hook, node) ==
    (CHOOSE e \in Events : e.hook = hook /\ e.span = node.span).ctx

\* the context the hook returned for the node
HookReturned(hook, node) == Mark(hook, node, HookCtx(hook, node)).ctx

\* the child nodes of a node: a type parameter stands for its constraint and
\* its default
ChildNodes(node) ==
    UNION {IF node.kids[i].k = "TypeParameter"
           THEN {node.kids[i].kids[j] : j \in DOMAIN node.kids[i].kids}
           ELSE {node.kids[i]} : i \in DOMAIN node.kids}

\* C14: in a walk of Node::traverse, every walked child of a node that is
\* neither a Program nor a Statement is walked with the context the node's
\* pre-order hook returned, and the node's post-order hook is called with
\* that context too; the first statement of a Program is walked with the
\* context the Program's pre-order hook returned, every other statement with
\* the context the walk of the statement before it returned, and the
\* Program's post-order hook is called with the context the walk of the last
\* statement returned.
C14_ContextThreading ==
    pc = "walked" =>
        \A n \in NodesOf(prog) :
            (n.k # "TypeParameter" /\ HookCalled("pre", n)) =>
                CASE n.k = "Program" ->
                        /\ \A i \in DOMAIN n.kids :
                            HookCtx("pre", n.kids[i]) =
                                IF i = 1 THEN HookReturned("pre", n)
                                ELSE HookReturned("post", n.kids[i - 1])
                        /\ HookCtx("post", n) =
                                IF n.kids = <<>> THEN HookReturned("pre", n)
                                ELSE HookReturned("post", n.kids[Len(n.kids)])
                  [] n.k = "Statement" -> TRUE
                  [] OTHER ->
                        /\ \A m \in ChildNodes(n) :
                            HookCalled("pre", m) =>
                                HookCtx("pre", m) = HookReturned("pre", n)
                        /\ HookCtx("post", n) = HookReturned("pre", n)

\* a Program of two statements was walked, the second one a conditional of
\* three children: the walk of the first statement has changed the context
C14_Witness ==
    /\ pc = "walked"
    /\ prog.k = "Program"
    /\ Len(prog.kids) = 2
    /\ prog.kids[2].kids[1].k = "IfExpr"
    /\ \A m \in ChildNodes(prog.kids[2].kids[1]) : HookCalled("post", m)
    /\ HookCtx("pre", prog.kids[2]) # HookReturned("pre", prog)
    /\ HookCtx("post", prog) # HookReturned("pre", prog)

----------------------------------------------------------------------------
\* the patterns of the arms a matched value may extend
Patterns == {Primitive("number"), Primitive("string")}

\* what a chain of n tests on the matched value yields for a value that
\* extends the patterns of `extended` and no other
RECURSIVE RunChain(_, _, _)
RunChain(chain, n, extended) ==
    IF n = 0 THEN chain
    ELSE IF chain.kids[2] \in extended THEN chain.kids[3]
    ELSE RunChain(chain.kids[4], n - 1, extended)

\* the body of the first arm from arm i on that matches; the wildcard
\* matches every value, and a value no arm matches yields never
RECURSIVE FirstMatch(_, _, _)
FirstMatch(arms, i, extended) ==
    IF i > Len(arms) THEN Never
    ELSE IF IsWildcard(arms[i]) \/ arms[i].pattern \in extended THEN arms[i].body
    ELSE FirstMatch(arms, i + 1, extended)

\* the wildcard arms, in source order
WildcardArms(node) == SelectSeq(MatchArms(node), IsWildcard)

\* C15 as claimed: for a match with at most one wildcard arm, whatever the
\* matched value extends, the compiled chain yields the body of the first
\* arm in source order that matches, the wildcard arm taking precedence over
\* the arms after it wherever it is placed.
C15_AsClaimed ==
    (/\ Returned
     /\ gen = "simplify.rs"
     /\ prog.k = "MatchExpr"
     /\ WildcardCount(prog) <= 1)
    => \A extended \in SUBSET Patterns :
        RunChain(out, Len(PlainArms(prog)), extended) =
            simplify(FirstMatch(MatchArms(prog), 1, extended))

\* C15: for a match with at most one wildcard arm, whatever the matched
\* value extends, the compiled chain yields the body of the first arm that
\* matches among the arms that are no wildcard, taken in source order, and
\* the body of the wildcard arm (or never) when none of them matches,
\* wherever the wildcard arm is placed.
C15_FirstMatchWins ==
    (/\ Returned
     /\ gen = "simplify.rs"
     /\ prog.k = "MatchExpr"
     /\ WildcardCount(prog) <= 1)
    => \A extended \in SUBSET Patterns :
        RunChain(out, Len(PlainArms(prog)), extended) =
            simplify(FirstMatch(PlainArms(prog) \o WildcardArms(prog), 1, extended))

\* a match whose first arm is the wildcard, followed by two arms of
\* different patterns, was compiled: for a value that extends both patterns
\* the chain yields the body of the arm after the wildcard
C15_Witness ==
    /\ pc = "simplified"
    /\ gen = "simplify.rs"
    /\ prog.k = "MatchExpr"
    /\ Len(MatchArms(prog)) = 3
    /\ IsWildcard(MatchArms(prog)[1])
    /\ Len(PlainArms(prog)) = 2
    /\ PlainArms(prog)[1].pattern # PlainArms(prog)[2].pattern
    /\ RunChain(out, 2, Patterns) = simplify(PlainArms(prog)[1].body)
    /\ RunChain(out, 2, Patterns) # simplify(PlainArms(prog)[2].body)
    /\ RunChain(out, 2, {}) = simplify(MatchArms(prog)[1].body)

====
